---- MODULE Spec2Model ----
(***************************************************************************)
(* Round/session transaction engine of the "break the code" contest        *)
(* (Cloud Functions over a transactional document store).                  *)
(*                                                                         *)
(* Every callable runs its body inside db.runTransaction; the store        *)
(* commits the whole read/write set atomically or not at all, so each      *)
(* handler is one atomic step over the collections rounds, users,          *)
(* userCodes, winners and payments.  A handler that throws leaves the      *)
(* collections unchanged and only produces a response.  Every read of a    *)
(* transaction returns the committed state the transaction started from.   *)
(***************************************************************************)
EXTENDS Integers, Sequences, FiniteSets, TLC

(* ---------------------------- bounds ----------------------------------- *)
NumPlayers == 2        \* live callers
MaxRounds == 2         \* startRound is not called once this many rounds exist
MaxPayments == 2       \* requestHint is not called once this many payments exist
MaxAttempts == 2       \* guesses a caller makes against one userCode
MaxTicks == 1          \* times the clock advances by one rate-limit window
MaxRequests == 5       \* requests served in one behaviour
MaxHintRequests == 7   \* requests served in one behaviour of SpecHints
MaxHintPayments == 3   \* payments that exist in one behaviour of SpecHints
MaxHintTicks == 2      \* times the clock advances by one hint cooldown in SpecHints
MaxDeepRequests == 10  \* requests served in one behaviour of SpecHintsDeep
MaxDeepPayments == 4   \* payments that exist in one behaviour of SpecHintsDeep
MaxDeepTicks == 3      \* times the clock advances by one hint cooldown in SpecHintsDeep
MaxLimiterRequests == 15 \* requests served in one behaviour of SpecLimiter
MaxLimiterAttempts == 11 \* guesses against one userCode in SpecLimiter and SpecWindow
MaxWindowRequests == 13  \* requests served in one behaviour of SpecWindow
MaxWindowRounds == 1     \* rounds started in one behaviour of SpecWindow
MaxSecretRequests == 4   \* requests served in one behaviour of SpecSecrets

(* ----------------------- program constants ----------------------------- *)
CODE_LENGTH == 7
MAX_WINNERS == 10
RATE_LIMIT_WINDOW_MS == 60000
MAX_ATTEMPTS_PER_WINDOW == 10
MAX_HINTS_PER_ROUND == 3
HINT_RATE_LIMIT_WINDOW_MS == 10000

Players == 1..NumPlayers
\* players that won before the observed callers arrive (used by InitQuota)
Background == (NumPlayers + 1)..(NumPlayers + MAX_WINNERS - 1)
AllUsers == Players \cup Background

NoTime == -1           \* a timestamp field that is null / absent
NoRound == 0           \* currentRoundId: null
NoRank == 0            \* winnerNumber: null
NoUser == [exists |-> FALSE]

\* milliseconds by which the clock advances between two requests
TickSteps == {RATE_LIMIT_WINDOW_MS}

VARIABLES rounds, users, userCodes, winners, payments, now, resp, served,
          client

store == <<rounds, users, userCodes, winners, payments>>
vars == <<rounds, users, userCodes, winners, payments, now, resp, served, client>>

(* ------------------------- pure helpers -------------------------------- *)
Digits == 0..9
Positions == 0..(CODE_LENGTH - 1)

SeqToSet(s) == {s[i] : i \in 1..Len(s)}

\* consecutiveCount after processing code[1..i] (0-based loop of the source)
RECURSIVE ConsecutiveCount(_, _)
ConsecutiveCount(code, i) ==
    IF i = 1 THEN 1
    ELSE IF code[i] = code[i - 1] THEN ConsecutiveCount(code, i - 1) + 1
    ELSE 1

\* the isValid flag computed by one iteration of the generator's loop
\* faulty variant: rule 2 (runs of equal digits) is left out
IsValidCodeNoRunRule(code) == Cardinality(SeqToSet(code)) # 1

IsValidCode(code) ==
    /\ Cardinality(SeqToSet(code)) # 1
    /\ \A i \in 1..Len(code) : ConsecutiveCount(code, i) <= 3

\* draws of the random source for one candidate
CandidatePool ==
    { <<0, 0, 0, 1, 1, 1, 2>>,
      <<5, 5, 3, 3, 5, 5, 3>>,
      <<7, 7, 7, 7, 1, 2, 3>>,
      <<0, 0, 0, 0, 0, 0, 0>> }

\* possible results of generateSecretCode: the loop redraws until isValid
generateSecretCode == {c \in CandidatePool : IsValidCode(c)}

RECURSIVE EqualFrom(_, _, _)
EqualFrom(code1, code2, i) ==
    IF i > 7 THEN TRUE
    ELSE IF code1[i] # code2[i] THEN FALSE
    ELSE EqualFrom(code1, code2, i + 1)

\* faulty variant: the loop stops one digit early
areCodesEqualShort(code1, code2) ==
    IF Len(code1) # 7 \/ Len(code2) # 7 THEN FALSE
    ELSE \A i \in 1..6 : code1[i] = code2[i]

areCodesEqual(code1, code2) ==
    IF Len(code1) # 7 \/ Len(code2) # 7 THEN FALSE
    ELSE EqualFrom(code1, code2, 1)

\* Array.prototype.sort((a, b) => a - b)
RECURSIVE SortAsc(_)
SortAsc(s) ==
    IF Len(s) = 0 THEN <<>>
    ELSE LET m == CHOOSE x \in SeqToSet(s) : \A y \in SeqToSet(s) : x <= y
             k == CHOOSE i \in 1..Len(s) : s[i] = m /\ \A j \in 1..(i - 1) : s[j] # m
         IN <<m>> \o SortAsc(SubSeq(s, 1, k - 1) \o SubSeq(s, k + 1, Len(s)))

\* [0..6].filter(index => !revealed.has(index))
\* faulty variant: the revealed positions are not filtered out
AvailableIndicesUnfiltered(revealed) == [i \in 1..CODE_LENGTH |-> i - 1]

AvailableIndices(revealed) ==
    SelectSeq([i \in 1..CODE_LENGTH |-> i - 1],
              LAMBDA p : p \notin SeqToSet(revealed))

\* values Math.floor(Math.random() * n) takes here: the first or the last
RandomIndexChoices(n) == {1, n}

\* Entries of a guess are JavaScript numbers.  Whole numbers stand for
\* themselves; TwoAndAHalf stands for the number 2.5, which is a number
\* between 0 and 9 but not a digit.
TwoAndAHalf == 25

\* guesses callers send: every candidate sequence, one that differs from a
\* candidate in the last digit only, an array that is too short, one with
\* an entry above 9 and one with an entry that is not a whole number
Guesses ==
    CandidatePool \cup { <<0, 0, 0, 1, 1, 1, 3>>, <<1, 2, 3>>,
                         <<0, 0, 0, 1, 1, 1, 10>>, <<TwoAndAHalf, 0, 0, 1, 1, 1, 2>> }

\* typeof num === 'number' && num >= 0 && num <= 9
IsNumberInRange(num) == num = TwoAndAHalf \/ (num >= 0 /\ num <= 9)

IsWellFormedGuess(g) ==
    /\ Len(g) = 7
    /\ \A i \in 1..Len(g) : IsNumberInRange(g[i])

(* --------------------------- documents --------------------------------- *)
\* Fields that are written but never read by any handler (startTime,
\* winningTime, paymentInitiatedAt, paymentConfirmedAt, transactionId,
\* amountUsdt, email, createdAt, lastLogin, selectedCode, walletBalanceUsdt,
\* secretCodesGenerated) are not carried.  Document ids are positions in the
\* collection's creation order.

NewRound(newRoundNumber) ==
    [ roundNumber |-> newRoundNumber,
      isActive    |-> TRUE,
      winnerCount |-> 0,
      maxWinners  |-> MAX_WINNERS,
      endTime     |-> NoTime ]

NewUserCode(userId, activeRoundId, assignedCode) ==
    [ userId         |-> userId,
      roundId        |-> activeRoundId,
      secretCode     |-> assignedCode,
      isWinner       |-> FALSE,
      attempts       |-> 0,
      hintPurchases  |-> 0,
      revealedDigits |-> <<>> ]

\* transaction.set(userRef, {...}) for a caller without a profile
NewUser(activeRoundId) ==
    [ exists                 |-> TRUE,
      currentRoundId         |-> activeRoundId,
      isWinnerInCurrentRound |-> FALSE,
      hintCount              |-> 0,
      attemptsInCurrentRound |-> 0,
      revealedHintDigits     |-> <<>>,
      lastGuessAttempt       |-> NoTime,
      lastHintRequest        |-> NoTime ]

\* faulty variant: attemptsInCurrentRound is left out of the reset
ResetRoundFieldsKeepsAttempts(userDoc, roundRef) ==
    [ userDoc EXCEPT !.currentRoundId = roundRef,
                     !.isWinnerInCurrentRound = FALSE,
                     !.hintCount = 0,
                     !.revealedHintDigits = <<>> ]

\* the round-scoped fields written on assignment and on the last winner's reset
ResetRoundFields(userDoc, roundRef) ==
    [ userDoc EXCEPT !.currentRoundId = roundRef,
                     !.isWinnerInCurrentRound = FALSE,
                     !.hintCount = 0,
                     !.attemptsInCurrentRound = 0,
                     !.revealedHintDigits = <<>> ]

\* faulty variant: the payment is born with its hint already provided
NewPaymentProvided(userId, activeRoundId, digitIndexToReveal) ==
    [ userId              |-> userId,
      roundId             |-> activeRoundId,
      status              |-> "pending",
      hintProvided        |-> TRUE,
      paymentInitiatedAt  |-> now,
      requestedDigitIndex |-> digitIndexToReveal ]

NewPayment(userId, activeRoundId, digitIndexToReveal) ==
    [ userId              |-> userId,
      roundId             |-> activeRoundId,
      status              |-> "pending",
      hintProvided        |-> FALSE,
      paymentInitiatedAt  |-> now,
      requestedDigitIndex |-> digitIndexToReveal ]

NewWinner(activeRoundId, userId, winnerNumber, secretCode) ==
    [ roundId         |-> activeRoundId,
      userId          |-> userId,
      winnerNumber    |-> winnerNumber,
      secretCodeAtWin |-> secretCode ]

Response(op, uid, status, msg) ==
    [ op |-> op, uid |-> uid, status |-> status, msg |-> msg,
      isCorrect |-> FALSE, roundEnded |-> FALSE, winnerNumber |-> NoRank ]

(* ---------------------------- queries ---------------------------------- *)
\* rounds.where('isActive', '==', true).limit(1): any one of the matches
ActiveRounds == {i \in 1..Len(rounds) : rounds[i].isActive}

\* rounds.orderBy('roundNumber', 'desc').limit(1)
LastRounds ==
    {i \in 1..Len(rounds) :
        \A j \in 1..Len(rounds) : rounds[j].roundNumber <= rounds[i].roundNumber}

\* userCodes.where('userId', '==', u).where('roundId', '==', r).limit(1)
UserCodesOf(userId, roundId) ==
    {i \in 1..Len(userCodes) :
        userCodes[i].userId = userId /\ userCodes[i].roundId = roundId}

\* faulty variant: the existing-code lookup is skipped
HasExistingCodeNever(userId, activeRoundId) == FALSE

\* assignSecretCode's "does the user already have a code" test
HasExistingCode(userId, activeRoundId) == UserCodesOf(userId, activeRoundId) # {}

\* faulty variant: the uniqueness query never matches
ExistingCodeQueryDropped(activeRoundId, generatedCode) == {}

\* userCodes.where('roundId', '==', r).where('secretCode', '==', code)
ExistingCodeQuery(activeRoundId, generatedCode) ==
    {i \in 1..Len(userCodes) :
        /\ userCodes[i].roundId = activeRoundId
        /\ userCodes[i].secretCode = generatedCode}

(* ------------------------- round lifecycle ----------------------------- *)
\* one more request is handled (the callers stop after MaxRequests of them)
\* a request to the functions leaves the browser's state alone
ServeUpTo(n) == served < n /\ served' = served + 1 /\ UNCHANGED client

Serve == ServeUpTo(MaxRequests)

\* endRound(roundId, transaction)
endRound(rs, roundId) ==
    [rs EXCEPT ![roundId].isActive = FALSE, ![roundId].endTime = now]

\* faulty variants: the previous round is left as it is / is written active
MarkPreviousInactiveSkipped(lastRound) == lastRound

MarkPreviousInactiveFlipped(lastRound) ==
    [lastRound EXCEPT !.isActive = TRUE, !.endTime = now]

\* startRound's update of the round found by the roundNumber query
MarkPreviousInactive(lastRound) ==
    [lastRound EXCEPT !.isActive = FALSE, !.endTime = now]

\* faulty variant: the new round repeats the number of the last one
NextRoundNumberSame(lastRound) == lastRound.roundNumber

NextRoundNumber(lastRound) == lastRound.roundNumber + 1

\* the handler proper; the actions below add the bounds of a specification
StartRoundBody ==
    /\ IF LastRounds = {}
       THEN rounds' = Append(rounds, NewRound(1))
       ELSE \E last \in LastRounds :
               rounds' = Append([rounds EXCEPT ![last] = MarkPreviousInactive(rounds[last])],
                                NewRound(NextRoundNumber(rounds[last])))
    /\ resp' = Response("startRound", 0, "ok", "started")
    /\ UNCHANGED <<users, userCodes, winners, payments, now>>

StartRound ==
    /\ Serve
    /\ Len(rounds) < MaxRounds
    /\ StartRoundBody

FinishRound(roundId) ==
    /\ Serve
    /\ IF roundId \notin 1..Len(rounds)
       THEN /\ resp' = Response("finishRound", 0, "not-found", "Round not found.")
            /\ UNCHANGED rounds
       ELSE IF ~rounds[roundId].isActive
       THEN /\ resp' = Response("finishRound", 0, "failed-precondition", "Round is not active.")
            /\ UNCHANGED rounds
       ELSE /\ rounds' = endRound(rounds, roundId)
            /\ resp' = Response("finishRound", 0, "ok", "ended")
    /\ UNCHANGED <<users, userCodes, winners, payments, now>>

(* --------------------------- assignSecretCode --------------------------- *)
\* faulty variant: the profile is reset on every call
UserDocAfterAssignAlways(userDoc, activeRoundId, userHasExistingCode) ==
    IF ~userDoc.exists THEN NewUser(activeRoundId)
    ELSE ResetRoundFields(userDoc, activeRoundId)

\* the users document after the handler: untouched when the caller already
\* had a code, created or reset when a new code was stored
UserDocAfterAssign(userDoc, activeRoundId, userHasExistingCode) ==
    IF userHasExistingCode THEN userDoc
    ELSE IF ~userDoc.exists THEN NewUser(activeRoundId)
    ELSE ResetRoundFields(userDoc, activeRoundId)

\* Every error of this handler reaches the caller as 'internal' (the catch
\* block wraps it).  The uniqueness loop redraws until the query is empty,
\* so the handler returns only with a code no userCode of the round holds.
AssignCodeBody(userId) ==
    IF ActiveRounds = {}
    THEN /\ resp' = Response("assignCode", userId, "internal", "No active round found.")
         /\ UNCHANGED <<store, now>>
    ELSE \E activeRoundId \in ActiveRounds :
         IF HasExistingCode(userId, activeRoundId)
         THEN /\ users' = [users EXCEPT ![userId] =
                              UserDocAfterAssign(users[userId], activeRoundId, TRUE)]
              /\ resp' = Response("assignCode", userId, "ok", "already exists")
              /\ UNCHANGED <<rounds, userCodes, winners, payments, now>>
         ELSE \E generatedCode \in generateSecretCode :
              /\ ExistingCodeQuery(activeRoundId, generatedCode) = {}
              /\ userCodes' = Append(userCodes,
                                     NewUserCode(userId, activeRoundId, generatedCode))
              /\ users' = [users EXCEPT ![userId] =
                              UserDocAfterAssign(users[userId], activeRoundId, FALSE)]
              /\ resp' = Response("assignCode", userId, "ok", "assigned")
              /\ UNCHANGED <<rounds, winners, payments, now>>

AssignCode(userId) == Serve /\ AssignCodeBody(userId)

(* ------------------------------ submitGuess ----------------------------- *)
\* faulty variant: quota off by one
QuotaOfOffByOne(activeRoundData) == activeRoundData.maxWinners + 1

\* the quota a correct guess is tested against
QuotaOf(activeRoundData) == activeRoundData.maxWinners

\* faulty variant: the rank is the count before the increment
WinnerNumberForStale(activeRoundData) == activeRoundData.winnerCount

\* the rank written to the Winner record and returned to the caller
WinnerNumberFor(activeRoundData) == activeRoundData.winnerCount + 1

\* faulty variant: wrong comparison operator
IsLastWinnerAtMost(winnerNumber, activeRoundData) ==
    winnerNumber <= QuotaOf(activeRoundData)

\* "if this is the 10th winner, end the round"
IsLastWinner(winnerNumber, activeRoundData) == winnerNumber = QuotaOf(activeRoundData)

\* rate limiter: TRUE when the previous guess lies inside the window
InWindow(userData) ==
    /\ userData.lastGuessAttempt # NoTime
    /\ now - userData.lastGuessAttempt < RATE_LIMIT_WINDOW_MS

\* faulty variant: the limit is compared with > instead of >=
RateLimitedOffByOne(userData) ==
    InWindow(userData) /\ userData.attemptsInCurrentRound > MAX_ATTEMPTS_PER_WINDOW

RateLimited(userData) ==
    InWindow(userData) /\ userData.attemptsInCurrentRound >= MAX_ATTEMPTS_PER_WINDOW

\* faulty variant: the already-won checks are missing
AlreadyWonNever(userData, userCodeData) == FALSE

AlreadyWon(userData, userCodeData) ==
    userData.isWinnerInCurrentRound \/ userCodeData.isWinner

\* faulty variant: the attempt is charged outside the transaction, so the
\* charge survives the rejection
GuessFailsCharging(userId, status, msg) ==
    /\ resp' = Response("submitGuess", userId, status, msg)
    /\ users' = IF users[userId].exists
                THEN [users EXCEPT ![userId].attemptsInCurrentRound = @ + 1]
                ELSE users
    /\ UNCHANGED <<rounds, userCodes, winners, payments, now>>

GuessFails(userId, status, msg) ==
    /\ resp' = Response("submitGuess", userId, status, msg)
    /\ UNCHANGED <<store, now>>

\* the committed transaction of a guess that passed every check
GuessCommits(userId, activeRoundId, ci, isCorrectGuess) ==
    LET userData == users[userId]
        activeRoundData == rounds[activeRoundId]
        counted == [userData EXCEPT
                       !.attemptsInCurrentRound =
                           (IF InWindow(userData) THEN userData.attemptsInCurrentRound ELSE 0) + 1,
                       !.lastGuessAttempt = now]
        winnerNumber == WinnerNumberFor(activeRoundData)
        closes == isCorrectGuess /\ IsLastWinner(winnerNumber, activeRoundData)
        counted2 == [rounds EXCEPT ![activeRoundId].winnerCount = @ + 1]
    IN /\ userCodes' = [userCodes EXCEPT ![ci].attempts = @ + 1,
                                         ![ci].isWinner = IF isCorrectGuess THEN TRUE ELSE @]
       /\ users' = [users EXCEPT ![userId] =
                       IF ~isCorrectGuess THEN counted
                       ELSE IF closes THEN ResetRoundFields(counted, NoRound)
                       ELSE [counted EXCEPT !.isWinnerInCurrentRound = TRUE]]
       /\ rounds' = IF ~isCorrectGuess THEN rounds
                    ELSE IF closes THEN endRound(counted2, activeRoundId)
                    ELSE counted2
       /\ winners' = IF isCorrectGuess
                     THEN Append(winners, NewWinner(activeRoundId, userId, winnerNumber,
                                                    userCodes[ci].secretCode))
                     ELSE winners
       /\ resp' = [Response("submitGuess", userId, "ok",
                            IF isCorrectGuess THEN "correct" ELSE "incorrect")
                     EXCEPT !.isCorrect = isCorrectGuess,
                            !.roundEnded = closes,
                            !.winnerNumber = IF isCorrectGuess THEN winnerNumber ELSE NoRank]
       /\ UNCHANGED <<payments, now>>

SubmitGuessBody(userId, guessedCode) ==
    /\ IF ~IsWellFormedGuess(guessedCode)
       THEN GuessFails(userId, "invalid-argument", "Invalid guessed code format.")
       ELSE IF ActiveRounds = {}
       THEN GuessFails(userId, "failed-precondition", "No active round found.")
       ELSE \E activeRoundId \in ActiveRounds :
            IF ~users[userId].exists
            THEN GuessFails(userId, "not-found", "User data not found.")
            ELSE IF UserCodesOf(userId, activeRoundId) = {}
            THEN GuessFails(userId, "failed-precondition", "User has no code assigned.")
            ELSE \E ci \in UserCodesOf(userId, activeRoundId) :
                 LET userData == users[userId]
                     userCodeData == userCodes[ci]
                     activeRoundData == rounds[activeRoundId]
                     isCorrectGuess == areCodesEqual(guessedCode, userCodeData.secretCode)
                 IN IF AlreadyWon(userData, userCodeData)
                    THEN GuessFails(userId, "failed-precondition", "You have already won in this round.")
                    ELSE IF RateLimited(userData)
                    THEN GuessFails(userId, "resource-exhausted", "Too many guess attempts.")
                    ELSE IF isCorrectGuess
                            /\ activeRoundData.winnerCount >= QuotaOf(activeRoundData)
                    THEN GuessFails(userId, "failed-precondition",
                                    "Round has already reached maximum winners.")
                    ELSE GuessCommits(userId, activeRoundId, ci, isCorrectGuess)

\* guesses made so far against the caller's code of the active round stay below n
AttemptsBelow(userId, n) ==
    \A r \in ActiveRounds : \A i \in UserCodesOf(userId, r) : userCodes[i].attempts < n

SubmitGuess(userId, guessedCode) ==
    /\ Serve
    /\ AttemptsBelow(userId, MaxAttempts)
    /\ SubmitGuessBody(userId, guessedCode)

(* ------------------------------ requestHint ----------------------------- *)
\* faulty variant: lastHintRequest is stamped outside the transaction, so the
\* stamp survives the rejection
HintFailsStamping(userId, status, msg) ==
    /\ resp' = Response("requestHint", userId, status, msg)
    /\ users' = IF users[userId].exists
                THEN [users EXCEPT ![userId].lastHintRequest = now]
                ELSE users
    /\ UNCHANGED <<rounds, userCodes, winners, payments, now>>

HintFails(userId, status, msg) ==
    /\ resp' = Response("requestHint", userId, status, msg)
    /\ UNCHANGED <<store, now>>

\* hint cooldown: TRUE when the previous hint request is too recent
\* faulty variant: the comparison with the cooldown is turned round
InHintCooldownFlipped(userData) ==
    /\ userData.lastHintRequest # NoTime
    /\ now - userData.lastHintRequest > HINT_RATE_LIMIT_WINDOW_MS

InHintCooldown(userData) ==
    /\ userData.lastHintRequest # NoTime
    /\ now - userData.lastHintRequest < HINT_RATE_LIMIT_WINDOW_MS

\* faulty variant: the position is revealed when the hint is requested
RequestHintBodyRevealing(userId) ==
    /\ IF ~users[userId].exists
       THEN HintFails(userId, "not-found", "User data not found.")
       ELSE IF ActiveRounds = {}
       THEN HintFails(userId, "failed-precondition", "No active round found.")
       ELSE \E activeRoundId \in ActiveRounds :
            IF UserCodesOf(userId, activeRoundId) = {}
            THEN HintFails(userId, "failed-precondition", "User has no code assigned.")
            ELSE \E ci \in UserCodesOf(userId, activeRoundId) :
                 LET userData == users[userId]
                     userCodeData == userCodes[ci]
                     availableIndices == AvailableIndices(userCodeData.revealedDigits)
                 IN IF userData.isWinnerInCurrentRound \/ userCodeData.isWinner
                    THEN HintFails(userId, "failed-precondition",
                                   "You cannot request a hint after winning.")
                    ELSE IF userCodeData.hintPurchases >= MAX_HINTS_PER_ROUND
                    THEN HintFails(userId, "resource-exhausted", "Maximum number of hints.")
                    ELSE IF InHintCooldown(userData)
                    THEN HintFails(userId, "resource-exhausted", "Please wait a moment.")
                    ELSE IF Len(availableIndices) = 0
                    THEN HintFails(userId, "failed-precondition", "All digits revealed.")
                    ELSE \E randomIndex \in RandomIndexChoices(Len(availableIndices)) :
                         /\ users' = [users EXCEPT ![userId].lastHintRequest = now]
                         /\ payments' = Append(payments,
                                NewPayment(userId, activeRoundId, availableIndices[randomIndex]))
                         /\ resp' = Response("requestHint", userId, "ok", "payment initiated")
                         /\ userCodes' = [userCodes EXCEPT ![ci].revealedDigits =
                                Append(@, availableIndices[randomIndex])]
                         /\ UNCHANGED <<rounds, winners, now>>

RequestHintBody(userId) ==
    /\ IF ~users[userId].exists
       THEN HintFails(userId, "not-found", "User data not found.")
       ELSE IF ActiveRounds = {}
       THEN HintFails(userId, "failed-precondition", "No active round found.")
       ELSE \E activeRoundId \in ActiveRounds :
            IF UserCodesOf(userId, activeRoundId) = {}
            THEN HintFails(userId, "failed-precondition", "User has no code assigned.")
            ELSE \E ci \in UserCodesOf(userId, activeRoundId) :
                 LET userData == users[userId]
                     userCodeData == userCodes[ci]
                     availableIndices == AvailableIndices(userCodeData.revealedDigits)
                 IN IF userData.isWinnerInCurrentRound \/ userCodeData.isWinner
                    THEN HintFails(userId, "failed-precondition",
                                   "You cannot request a hint after winning.")
                    ELSE IF userCodeData.hintPurchases >= MAX_HINTS_PER_ROUND
                    THEN HintFails(userId, "resource-exhausted", "Maximum number of hints.")
                    ELSE IF InHintCooldown(userData)
                    THEN HintFails(userId, "resource-exhausted", "Please wait a moment.")
                    ELSE IF Len(availableIndices) = 0
                    THEN HintFails(userId, "failed-precondition", "All digits revealed.")
                    ELSE \E randomIndex \in RandomIndexChoices(Len(availableIndices)) :
                         /\ users' = [users EXCEPT ![userId].lastHintRequest = now]
                         /\ payments' = Append(payments,
                                NewPayment(userId, activeRoundId, availableIndices[randomIndex]))
                         /\ resp' = Response("requestHint", userId, "ok", "payment initiated")
                         /\ UNCHANGED <<rounds, userCodes, winners, now>>

RequestHint(userId) ==
    /\ Serve
    /\ Len(payments) < MaxPayments
    /\ RequestHintBody(userId)

(* ----------------------------- confirmPayment --------------------------- *)
ConfirmResponds(paymentId, status, msg) ==
    /\ resp' = Response("confirmPayment", paymentId, status, msg)
    /\ UNCHANGED <<store, now>>

\* faulty variant: the status write is lost
MarkCompletedLost(paymentData) == paymentData

\* the update that records the confirmation on the payment document
MarkCompleted(paymentData) == [paymentData EXCEPT !.status = "completed"]

\* newRevealedDigits: push the position and sort, unless already included
\* faulty variant: the position is pushed but the list is not sorted again
RevealDigitUnsorted(currentRevealedDigits, requestedDigitIndex) ==
    IF requestedDigitIndex \notin SeqToSet(currentRevealedDigits)
    THEN Append(currentRevealedDigits, requestedDigitIndex)
    ELSE currentRevealedDigits

RevealDigit(currentRevealedDigits, requestedDigitIndex) ==
    IF requestedDigitIndex \notin SeqToSet(currentRevealedDigits)
    THEN SortAsc(Append(currentRevealedDigits, requestedDigitIndex))
    ELSE currentRevealedDigits

\* paymentVerifiedExternally is the constant true in the source, so the
\* 'failed' branch is never taken.
\* faulty variant: the userCode update also writes isWinner: false
ConfirmPaymentBodyClearingWinner(paymentId) ==
    IF paymentId \notin 1..Len(payments)
    THEN ConfirmResponds(paymentId, "200", "Payment record not found internally.")
    ELSE LET paymentData == payments[paymentId]
             userId == paymentData.userId
             roundId == paymentData.roundId
             requestedDigitIndex == paymentData.requestedDigitIndex
         IN IF paymentData.status = "completed" /\ paymentData.hintProvided
            THEN ConfirmResponds(paymentId, "200", "Payment already processed.")
            ELSE IF paymentData.status # "pending"
            THEN ConfirmResponds(paymentId, "200", "Payment is not in pending state.")
            ELSE IF UserCodesOf(userId, roundId) = {}
            THEN ConfirmResponds(paymentId, "500", "Internal Error: User code not found.")
            ELSE IF requestedDigitIndex \notin Positions
            THEN ConfirmResponds(paymentId, "500", "Internal Error: Invalid requested digit index.")
            ELSE IF ~users[userId].exists
            THEN ConfirmResponds(paymentId, "500", "Internal Server Error")
            ELSE \E ci \in UserCodesOf(userId, roundId) :
                 LET newRevealedDigits ==
                         RevealDigit(userCodes[ci].revealedDigits, requestedDigitIndex)
                 IN /\ payments' = [payments EXCEPT ![paymentId] =
                                       [MarkCompleted(paymentData) EXCEPT !.hintProvided = TRUE]]
                    /\ userCodes' = [userCodes EXCEPT ![ci].hintPurchases = @ + 1,
                                                      ![ci].revealedDigits = newRevealedDigits,
                                                      ![ci].isWinner = FALSE]
                    /\ users' = [users EXCEPT ![userId].hintCount = @ + 1,
                                              ![userId].revealedHintDigits = newRevealedDigits]
                    /\ resp' = Response("confirmPayment", paymentId, "200",
                                        "Payment confirmed and hint provided.")
                    /\ UNCHANGED <<rounds, winners, now>>

ConfirmPaymentBody(paymentId) ==
    IF paymentId \notin 1..Len(payments)
    THEN ConfirmResponds(paymentId, "200", "Payment record not found internally.")
    ELSE LET paymentData == payments[paymentId]
             userId == paymentData.userId
             roundId == paymentData.roundId
             requestedDigitIndex == paymentData.requestedDigitIndex
         IN IF paymentData.status = "completed" /\ paymentData.hintProvided
            THEN ConfirmResponds(paymentId, "200", "Payment already processed.")
            ELSE IF paymentData.status # "pending"
            THEN ConfirmResponds(paymentId, "200", "Payment is not in pending state.")
            ELSE IF UserCodesOf(userId, roundId) = {}
            THEN ConfirmResponds(paymentId, "500", "Internal Error: User code not found.")
            ELSE IF requestedDigitIndex \notin Positions
            THEN ConfirmResponds(paymentId, "500", "Internal Error: Invalid requested digit index.")
            ELSE IF ~users[userId].exists
            THEN ConfirmResponds(paymentId, "500", "Internal Server Error")
            ELSE \E ci \in UserCodesOf(userId, roundId) :
                 LET newRevealedDigits ==
                         RevealDigit(userCodes[ci].revealedDigits, requestedDigitIndex)
                 IN /\ payments' = [payments EXCEPT ![paymentId] =
                                       [MarkCompleted(paymentData) EXCEPT !.hintProvided = TRUE]]
                    /\ userCodes' = [userCodes EXCEPT ![ci].hintPurchases = @ + 1,
                                                      ![ci].revealedDigits = newRevealedDigits]
                    /\ users' = [users EXCEPT ![userId].hintCount = @ + 1,
                                              ![userId].revealedHintDigits = newRevealedDigits]
                    /\ resp' = Response("confirmPayment", paymentId, "200",
                                        "Payment confirmed and hint provided.")
                    /\ UNCHANGED <<rounds, winners, now>>

ConfirmPayment(paymentId) == Serve /\ ConfirmPaymentBody(paymentId)

(* -------------------------------- clock --------------------------------- *)
Tick(d) ==
    /\ now + d <= MaxTicks * RATE_LIMIT_WINDOW_MS
    /\ now' = now + d
    /\ UNCHANGED <<store, resp, served, client>>

(* ---------------------------- specifications ---------------------------- *)
NoResponse == Response("none", 0, "none", "none")

\* the browser before handleVerifyOtp has run
NoClient == [pc |-> "idle", usedCodes |-> {}, attempts |-> 0, code |-> <<>>]

Init ==
    /\ rounds = <<>>
    /\ users = [u \in AllUsers |-> NoUser]
    /\ userCodes = <<>>
    /\ winners = <<>>
    /\ payments = <<>>
    /\ now = 0
    /\ resp = NoResponse
    /\ served = 0
    /\ client = NoClient

Next ==
    \/ StartRound
    \/ \E roundId \in 1..MaxRounds : FinishRound(roundId)
    \/ \E userId \in Players : AssignCode(userId)
    \/ \E userId \in Players : \E guessedCode \in Guesses : SubmitGuess(userId, guessedCode)
    \/ \E userId \in Players : RequestHint(userId)
    \/ \E paymentId \in 1..MaxPayments : ConfirmPayment(paymentId)
    \/ \E d \in TickSteps : Tick(d)

Spec == Init /\ [][Next]_vars

(* A round that is one winner short of its quota: round 1 was started and   *)
(* MAX_WINNERS - 1 other players were each assigned a code and guessed it   *)
(* on their first attempt, all at time 0.  The observed callers arrive now; *)
(* of their requests only the startRound that opened round 1 was served.    *)
BackgroundCode(b) == [i \in 1..CODE_LENGTH |-> (b + i) % 10]

InitQuota ==
    /\ rounds = << [NewRound(1) EXCEPT !.winnerCount = MAX_WINNERS - 1] >>
    /\ users = [u \in AllUsers |->
                  IF u \in Background
                  THEN [NewUser(1) EXCEPT !.isWinnerInCurrentRound = TRUE,
                                          !.attemptsInCurrentRound = 1,
                                          !.lastGuessAttempt = 0]
                  ELSE NoUser]
    /\ userCodes = [k \in 1..(MAX_WINNERS - 1) |->
                      [NewUserCode(NumPlayers + k, 1, BackgroundCode(NumPlayers + k))
                          EXCEPT !.isWinner = TRUE, !.attempts = 1]]
    /\ winners = [k \in 1..(MAX_WINNERS - 1) |->
                    NewWinner(1, NumPlayers + k, k, BackgroundCode(NumPlayers + k))]
    /\ payments = <<>>
    /\ now = 0
    /\ resp = NoResponse
    /\ served = 1
    /\ client = NoClient

SpecQuota == InitQuota /\ [][Next]_vars

(* One player buying hints: the same handlers from the same initial state,  *)
(* with a request budget deep enough for two payments and their            *)
(* confirmations, and a clock that advances by the hint cooldown.           *)
HintPlayers == {1}

StartRoundH == ServeUpTo(MaxHintRequests) /\ Len(rounds) < MaxRounds /\ StartRoundBody

AssignCodeH(userId) == ServeUpTo(MaxHintRequests) /\ AssignCodeBody(userId)

RequestHintH(userId) ==
    /\ ServeUpTo(MaxHintRequests)
    /\ Len(payments) < MaxHintPayments
    /\ RequestHintBody(userId)

ConfirmPaymentH(paymentId) == ServeUpTo(MaxHintRequests) /\ ConfirmPaymentBody(paymentId)

TickH ==
    /\ now + HINT_RATE_LIMIT_WINDOW_MS <= MaxHintTicks * HINT_RATE_LIMIT_WINDOW_MS
    /\ now' = now + HINT_RATE_LIMIT_WINDOW_MS
    /\ UNCHANGED <<store, resp, served, client>>

NextHints ==
    \/ StartRoundH
    \/ \E userId \in HintPlayers : AssignCodeH(userId)
    \/ \E userId \in HintPlayers : RequestHintH(userId)
    \/ \E paymentId \in 1..MaxHintPayments : ConfirmPaymentH(paymentId)
    \/ TickH

SpecHints == Init /\ [][NextHints]_vars

(* The same, deep enough for four payments and their confirmations.         *)
StartRoundD == ServeUpTo(MaxDeepRequests) /\ Len(rounds) < MaxRounds /\ StartRoundBody

AssignCodeD(userId) == ServeUpTo(MaxDeepRequests) /\ AssignCodeBody(userId)

RequestHintD(userId) ==
    /\ ServeUpTo(MaxDeepRequests)
    /\ Len(payments) < MaxDeepPayments
    /\ RequestHintBody(userId)

ConfirmPaymentD(paymentId) == ServeUpTo(MaxDeepRequests) /\ ConfirmPaymentBody(paymentId)

TickD ==
    /\ now + HINT_RATE_LIMIT_WINDOW_MS <= MaxDeepTicks * HINT_RATE_LIMIT_WINDOW_MS
    /\ now' = now + HINT_RATE_LIMIT_WINDOW_MS
    /\ UNCHANGED <<store, resp, served, client>>

NextHintsDeep ==
    \/ StartRoundD
    \/ \E userId \in HintPlayers : AssignCodeD(userId)
    \/ \E userId \in HintPlayers : RequestHintD(userId)
    \/ \E paymentId \in 1..MaxDeepPayments : ConfirmPaymentD(paymentId)
    \/ TickD

SpecHintsDeep == Init /\ [][NextHintsDeep]_vars

(* One player guessing: the same handlers from the same initial state, with *)
(* a budget deep enough to fill a rate-limit window in one round and guess  *)
(* again in the next.                                                       *)
LimiterPlayers == {1}

StartRoundL == ServeUpTo(MaxLimiterRequests) /\ Len(rounds) < MaxRounds /\ StartRoundBody

AssignCodeL(userId) == ServeUpTo(MaxLimiterRequests) /\ AssignCodeBody(userId)

SubmitGuessL(userId, guessedCode) ==
    /\ ServeUpTo(MaxLimiterRequests)
    /\ AttemptsBelow(userId, MaxLimiterAttempts)
    /\ SubmitGuessBody(userId, guessedCode)

NextLimiter ==
    \/ StartRoundL
    \/ \E userId \in LimiterPlayers : AssignCodeL(userId)
    \/ \E userId \in LimiterPlayers : \E guessedCode \in Guesses :
          SubmitGuessL(userId, guessedCode)
    \/ \E d \in TickSteps : Tick(d)

SpecLimiter == Init /\ [][NextLimiter]_vars

(* One player guessing against the code of one round: a budget deep enough  *)
(* to fill a rate-limit window and go one guess over.                       *)
StartRoundW ==
    ServeUpTo(MaxWindowRequests) /\ Len(rounds) < MaxWindowRounds /\ StartRoundBody

AssignCodeW(userId) == ServeUpTo(MaxWindowRequests) /\ AssignCodeBody(userId)

SubmitGuessW(userId, guessedCode) ==
    /\ ServeUpTo(MaxWindowRequests)
    /\ AttemptsBelow(userId, MaxLimiterAttempts)
    /\ SubmitGuessBody(userId, guessedCode)

NextWindow ==
    \/ StartRoundW
    \/ \E userId \in LimiterPlayers : AssignCodeW(userId)
    \/ \E userId \in LimiterPlayers : \E guessedCode \in Guesses :
          SubmitGuessW(userId, guessedCode)
    \/ \E d \in TickSteps : Tick(d)

SpecWindow == Init /\ [][NextWindow]_vars

(* All players against the four handlers that answer a player, with a      *)
(* budget of requests just long enough for a second player's correct guess *)
(* and for a confirmed hint.                                               *)
StartRoundS ==
    ServeUpTo(MaxSecretRequests) /\ Len(rounds) < MaxRounds /\ StartRoundBody

AssignCodeS(userId) == ServeUpTo(MaxSecretRequests) /\ AssignCodeBody(userId)

SubmitGuessS(userId, guessedCode) ==
    /\ ServeUpTo(MaxSecretRequests)
    /\ AttemptsBelow(userId, MaxAttempts)
    /\ SubmitGuessBody(userId, guessedCode)

RequestHintS(userId) ==
    /\ ServeUpTo(MaxSecretRequests)
    /\ Len(payments) < MaxPayments
    /\ RequestHintBody(userId)

ConfirmPaymentS(paymentId) == ServeUpTo(MaxSecretRequests) /\ ConfirmPaymentBody(paymentId)

NextSecrets ==
    \/ StartRoundS
    \/ \E userId \in Players : AssignCodeS(userId)
    \/ \E userId \in Players : \E guessedCode \in Guesses :
          SubmitGuessS(userId, guessedCode)
    \/ \E userId \in Players : RequestHintS(userId)
    \/ \E paymentId \in 1..MaxPayments : ConfirmPaymentS(paymentId)
    \/ \E d \in TickSteps : Tick(d)

SpecSecrets == Init /\ [][NextSecrets]_vars


(* ======================================================================= *)
(*                              Properties                                 *)
(* ======================================================================= *)
WinnersOf(roundId) == {i \in 1..Len(winners) : winners[i].roundId = roundId}

\* the last step handled a request of this kind
Handled(op) == served' = served + 1 /\ resp'.op = op

\* C1: every round satisfies winnerCount <= maxWinners, and maxWinners is 10.
C1_WinnerCountWithinQuota ==
    \A r \in 1..Len(rounds) :
        /\ rounds[r].maxWinners = MAX_WINNERS
        /\ rounds[r].winnerCount <= rounds[r].maxWinners

\* a round filled its quota while a further player holding a code had not won
C1_Witness ==
    \E r \in 1..Len(rounds) :
        /\ rounds[r].winnerCount = MAX_WINNERS
        /\ \E i \in 1..Len(userCodes) :
              userCodes[i].roundId = r /\ ~userCodes[i].isWinner

\* C2: the winnerNumber values of a round's Winner records are pairwise
\* distinct and are exactly 1..winnerCount of that round.
C2_RanksGapless ==
    \A r \in 1..Len(rounds) :
        /\ \A i, j \in WinnersOf(r) :
              i # j => winners[i].winnerNumber # winners[j].winnerNumber
        /\ {winners[i].winnerNumber : i \in WinnersOf(r)} = 1..rounds[r].winnerCount

\* two players have won the same round
C2_Witness ==
    \E r \in 1..Len(rounds) :
        /\ Cardinality(WinnersOf(r)) >= 2
        /\ resp.op = "submitGuess" /\ resp.isCorrect

\* C3: a committed submitGuess whose guess equals the caller's secret code
\* appends exactly one Winner record whose rank is the round's new winnerCount
\* and the returned winnerNumber; one whose guess differs appends none, leaves
\* every winnerCount unchanged and returns isCorrect = false, winnerNumber null.
C3_GuessOutcome ==
    [][ (Handled("submitGuess") /\ resp'.status = "ok") =>
        \A userId \in {resp'.uid} \cap Players : \A guessedCode \in Guesses :
          \A r \in ActiveRounds : \A ci \in UserCodesOf(userId, r) :
            (Handled("submitGuess") /\ resp'.uid = userId /\ resp'.status = "ok"
                /\ SubmitGuess(userId, guessedCode))
            => IF guessedCode = userCodes[ci].secretCode
               THEN /\ Len(winners') = Len(winners) + 1
                    /\ SubSeq(winners', 1, Len(winners)) = winners
                    /\ winners'[Len(winners')].roundId = r
                    /\ winners'[Len(winners')].userId = userId
                    /\ winners'[Len(winners')].winnerNumber = rounds'[r].winnerCount
                    /\ rounds'[r].winnerCount = rounds[r].winnerCount + 1
                    /\ resp'.isCorrect
                    /\ resp'.winnerNumber = winners'[Len(winners')].winnerNumber
               ELSE /\ winners' = winners
                    /\ \A q \in 1..Len(rounds) :
                          rounds'[q].winnerCount = rounds[q].winnerCount
                    /\ ~resp'.isCorrect
                    /\ resp'.winnerNumber = NoRank ]_vars

\* a player has guessed wrong and then right
C3_Witness ==
    /\ resp.op = "submitGuess" /\ resp.isCorrect /\ resp.winnerNumber # NoRank
    /\ \E i \in 1..Len(userCodes) :
          userCodes[i].userId = resp.uid /\ userCodes[i].isWinner
                                         /\ userCodes[i].attempts >= 2

\* C4 (as stated): every round that has become inactive has exactly 10 Winner
\* records.
C4_ExactlyQuotaWhenInactive ==
    \A r \in 1..Len(rounds) :
        ~rounds[r].isActive => Cardinality(WinnersOf(r)) = MAX_WINNERS

\* C4 (amended): no round ever has more than 10 Winner records, and a round
\* that a submitGuess turns inactive has exactly 10.
C4_AtMostQuotaAndExactWhenGuessCloses ==
    [][ \A r \in 1..Len(rounds) :
          /\ Cardinality(WinnersOf(r)') <= MAX_WINNERS
          /\ (Handled("submitGuess") /\ rounds[r].isActive /\ ~rounds'[r].isActive)
             => Cardinality(WinnersOf(r)') = MAX_WINNERS ]_vars

\* the tenth winner has just closed a round
C4_Witness ==
    /\ resp.op = "submitGuess" /\ resp.roundEnded
    /\ \E r \in 1..Len(rounds) :
          ~rounds[r].isActive /\ Cardinality(WinnersOf(r)) = MAX_WINNERS

\* C5: at most one round has isActive = true.
C5_AtMostOneActiveRound == Cardinality(ActiveRounds) <= 1

\* startRound has superseded a round that was still active
C5_Witness ==
    /\ resp.op = "startRound"
    /\ Len(rounds) >= 2
    /\ rounds[Len(rounds)].isActive
    /\ rounds[Len(rounds) - 1].endTime = now

\* C6: once a round's isActive is false no step sets it back to true.
C6_EndedIsTerminal ==
    [][ \A r \in 1..Len(rounds) : ~rounds[r].isActive => ~rounds'[r].isActive ]_vars

\* an ended round exists beside a newer one and finishRound was refused on it
C6_Witness ==
    /\ resp.op = "finishRound" /\ resp.status = "failed-precondition"
    /\ Len(rounds) >= 2
    /\ ~rounds[1].isActive

\* C7: no two UserCode records of one round hold the same secretCode.
C7_UniqueCodesPerRound ==
    \A i, j \in 1..Len(userCodes) :
        (i # j /\ userCodes[i].roundId = userCodes[j].roundId)
        => userCodes[i].secretCode # userCodes[j].secretCode

\* two players hold codes in the same round
C7_Witness ==
    \E i, j \in 1..Len(userCodes) :
        /\ userCodes[i].roundId = userCodes[j].roundId
        /\ userCodes[i].userId # userCodes[j].userId

\* C8: at most one UserCode record per (player, round) pair.
C8_OneCodePerPlayerAndRound ==
    \A i, j \in 1..Len(userCodes) :
        (userCodes[i].userId = userCodes[j].userId
            /\ userCodes[i].roundId = userCodes[j].roundId) => i = j

\* a player who holds a code has asked for one again, in two different rounds
C8_Witness ==
    /\ resp.op = "assignCode" /\ resp.msg = "already exists"
    /\ Cardinality({i \in 1..Len(userCodes) : userCodes[i].userId = resp.uid}) >= 2

\* C9: assignCode by a player who already has a UserCode for the active round
\* succeeds, reports "already exists" and leaves every stored record unchanged.
C9_AssignIdempotent ==
    [][ \A userId \in Players :
          (Handled("assignCode") /\ resp'.uid = userId
              /\ \E r \in ActiveRounds : HasExistingCode(userId, r))
          => /\ store' = store
             /\ resp'.status = "ok"
             /\ resp'.msg = "already exists" ]_vars

\* the repeated call came after the player had guessed: the record it leaves
\* alone is no longer in its initial state
C9_Witness ==
    /\ resp.op = "assignCode" /\ resp.msg = "already exists"
    /\ users[resp.uid].attemptsInCurrentRound > 0
    /\ \E i \in 1..Len(userCodes) :
          userCodes[i].userId = resp.uid /\ userCodes[i].attempts > 0

\* payments of a (player, round) whose hint has been provided, after the step
ProvidedAfter(userId, roundId) ==
    {p \in 1..Len(payments') :
        /\ payments'[p].userId = userId
        /\ payments'[p].roundId = roundId
        /\ payments'[p].hintProvided}

Occurrences(s, x) == Cardinality({i \in 1..Len(s) : s[i] = x})

\* C10: confirmPayment is safe to retry.  The first committed confirmation of
\* a request completes it, adds 1 to UserCode.hintPurchases and Player.hintCount
\* and leaves its position exactly once in revealedDigits; any later
\* confirmation of the same request changes no stored record; so hintPurchases
\* always equals the number of confirmed requests of that (player, round).
C10_ConfirmRetrySafe ==
    [][ /\ \A ci \in 1..Len(userCodes') :
              userCodes'[ci].hintPurchases =
                  Cardinality(ProvidedAfter(userCodes'[ci].userId, userCodes'[ci].roundId))
        /\ \A paymentId \in 1..Len(payments) :
              (Handled("confirmPayment") /\ resp'.uid = paymentId)
              => IF payments[paymentId].hintProvided
                    \/ resp'.msg # "Payment confirmed and hint provided."
                 THEN store' = store
                 ELSE LET userId == payments[paymentId].userId
                          position == payments[paymentId].requestedDigitIndex
                      IN /\ payments'[paymentId].status = "completed"
                         /\ payments'[paymentId].hintProvided
                         /\ users'[userId].hintCount = users[userId].hintCount + 1
                         /\ \A ci \in UserCodesOf(userId, payments[paymentId].roundId) :
                               /\ userCodes'[ci].hintPurchases =
                                      userCodes[ci].hintPurchases + 1
                               /\ Occurrences(userCodes'[ci].revealedDigits, position) = 1
                               /\ Len(userCodes'[ci].revealedDigits)
                                      <= Len(userCodes[ci].revealedDigits) + 1 ]_vars

\* a confirmed request has been confirmed a second time
C10_Witness ==
    /\ resp.op = "confirmPayment" /\ resp.msg = "Payment already processed."
    /\ resp.uid \in 1..Len(payments)
    /\ payments[resp.uid].hintProvided
    /\ \E ci \in UserCodesOf(payments[resp.uid].userId, payments[resp.uid].roundId) :
          userCodes[ci].hintPurchases = 1

\* C11: at every moment each userCode's revealedDigits holds distinct
\* positions within 0..CODE_LENGTH-1, and at most MAX_HINTS_PER_ROUND of them.
C11_RevealedWithinHintQuota ==
    \A i \in 1..Len(userCodes) :
        LET revealed == userCodes[i].revealedDigits
        IN /\ \A k \in 1..Len(revealed) : revealed[k] \in 0..(CODE_LENGTH - 1)
           /\ \A k, l \in 1..Len(revealed) : revealed[k] = revealed[l] => k = l
           /\ Len(revealed) <= MAX_HINTS_PER_ROUND

\* C12: a payment is created pending with hintProvided false; its status
\* leaves "pending" at most once (to "completed" or "failed") and never
\* changes afterwards; hintProvided goes from false to true at most once and
\* never back; and hintProvided implies status "completed".
C12_PaymentLifecycle ==
    [][ /\ Len(payments') >= Len(payments)
        /\ \A p \in 1..Len(payments) :
              /\ payments[p].status # "pending" => payments'[p].status = payments[p].status
              /\ payments'[p].status \in {payments[p].status, "completed", "failed"}
              /\ payments[p].hintProvided => payments'[p].hintProvided
        /\ \A p \in (Len(payments) + 1)..Len(payments') :
              payments'[p].status = "pending" /\ ~payments'[p].hintProvided
        /\ \A p \in 1..Len(payments') :
              payments'[p].hintProvided => payments'[p].status = "completed"
      ]_vars

\* a completed payment with its hint provided beside a payment still pending
C12_Witness ==
    \E p, q \in 1..Len(payments) :
        /\ payments[p].status = "completed" /\ payments[p].hintProvided
        /\ payments[q].status = "pending" /\ ~payments[q].hintProvided

\* guesses of a player that were accepted (counted) so far, over all rounds
RECURSIVE AttemptsUpTo(_, _)
AttemptsUpTo(userId, n) ==
    IF n = 0 THEN 0
    ELSE AttemptsUpTo(userId, n - 1)
         + (IF userCodes[n].userId = userId THEN userCodes[n].attempts ELSE 0)

AcceptedGuesses(userId) == AttemptsUpTo(userId, Len(userCodes))

\* a submitGuess step of userId that got as far as the rate limiter
ReachesLimiter(userId) ==
    /\ Handled("submitGuess")
    /\ resp'.uid = userId
    /\ resp'.status \in {"ok", "resource-exhausted"}

\* every guess the player has had accepted was made against the code of the
\* round that is active now
GuessedInActiveRoundOnly(userId) ==
    \A i \in 1..Len(userCodes) :
        (userCodes[i].userId = userId /\ userCodes[i].attempts > 0)
            => rounds[userCodes[i].roundId].isActive

C14_AtMostTenPerWindow ==
    now < RATE_LIMIT_WINDOW_MS =>
        \A userId \in Players : AcceptedGuesses(userId) <= MAX_ATTEMPTS_PER_WINDOW

\* a requestHint step of userId that arrives within the cooldown of the
\* player's last committed hint request
HintInCooldown(userId) ==
    /\ Handled("requestHint")
    /\ resp'.uid = userId
    /\ users[userId].exists
    /\ InHintCooldown(users[userId])

\* payments of one player lie at least the cooldown apart
PaymentsApart(ps) ==
    \A p, q \in 1..Len(ps) :
        (p < q /\ ps[p].userId = ps[q].userId)
            => ps[q].paymentInitiatedAt - ps[p].paymentInitiatedAt >= HINT_RATE_LIMIT_WINDOW_MS

\* C15 as stated: a requestHint arriving less than HINT_RATE_LIMIT_WINDOW_MS
\* after the player's last committed hint request is rejected with
\* resource-exhausted, creates no payment and leaves lastHintRequest; so any
\* two payments of one player are at least that far apart.
C15_CooldownAlwaysResourceExhausted ==
    [][ /\ \A userId \in Players :
              HintInCooldown(userId)
                  => /\ resp'.status = "resource-exhausted"
                     /\ payments' = payments
                     /\ users'[userId].lastHintRequest = users[userId].lastHintRequest
        /\ PaymentsApart(payments')
      ]_vars

\* the caller holds a code in the active round and has not won
CanPlayActiveRound(userId) ==
    \E r \in ActiveRounds : \E ci \in UserCodesOf(userId, r) :
        ~users[userId].isWinnerInCurrentRound /\ ~userCodes[ci].isWinner

\* C15 (amended): such a requestHint is always rejected, creates no payment
\* and leaves lastHintRequest; the error is resource-exhausted when the
\* player holds a code in the active round and has not won, and otherwise
\* the failed-precondition of the test that comes before the cooldown; any
\* two payments of one player are at least HINT_RATE_LIMIT_WINDOW_MS apart.
C15_CooldownRejects ==
    [][ /\ \A userId \in Players :
              HintInCooldown(userId)
                  => /\ resp'.status = IF CanPlayActiveRound(userId)
                                       THEN "resource-exhausted"
                                       ELSE "failed-precondition"
                     /\ payments' = payments
                     /\ users'[userId].lastHintRequest = users[userId].lastHintRequest
        /\ PaymentsApart(payments')
      ]_vars

\* a request turned away by the cooldown, and two payments of one player
C15_Witness ==
    /\ resp.op = "requestHint" /\ resp.status = "resource-exhausted"
    /\ resp.msg = "Please wait a moment."
    /\ now - users[resp.uid].lastHintRequest < HINT_RATE_LIMIT_WINDOW_MS
    /\ \E p \in 1..Len(payments) : payments[p].userId = resp.uid

\* C16: a committed requestHint creates exactly one payment, pending with
\* hintProvided false, whose requestedDigitIndex lies in 0..CODE_LENGTH-1 and
\* is not among the caller's revealedDigits at that moment; it stamps the
\* player's lastHintRequest and leaves every userCode (revealedDigits,
\* hintPurchases) and the player's hintCount and revealedHintDigits as they were.
C16_RequestHintFrame ==
    [][ \A userId \in Players :
          (Handled("requestHint") /\ resp'.uid = userId /\ resp'.status = "ok")
              => /\ Len(payments') = Len(payments) + 1
                 /\ SubSeq(payments', 1, Len(payments)) = payments
                 /\ LET created == payments'[Len(payments')]
                    IN /\ created.userId = userId
                       /\ created.status = "pending"
                       /\ ~created.hintProvided
                       /\ created.requestedDigitIndex \in 0..(CODE_LENGTH - 1)
                       /\ created.roundId \in ActiveRounds
                       /\ \A ci \in UserCodesOf(userId, created.roundId) :
                             created.requestedDigitIndex
                                 \notin SeqToSet(userCodes[ci].revealedDigits)
                 /\ users'[userId].lastHintRequest = now
                 /\ userCodes' = userCodes
                 /\ users'[userId].hintCount = users[userId].hintCount
                 /\ users'[userId].revealedHintDigits = users[userId].revealedHintDigits
      ]_vars

\* a hint was requested by a player who already has a position revealed
C16_Witness ==
    /\ resp.op = "requestHint" /\ resp.status = "ok"
    /\ payments # <<>>
    /\ LET created == payments[Len(payments)]
       IN /\ created.userId = resp.uid /\ created.status = "pending"
          /\ \E ci \in UserCodesOf(resp.uid, created.roundId) :
                /\ userCodes[ci].revealedDigits # <<>>
                /\ created.requestedDigitIndex \notin SeqToSet(userCodes[ci].revealedDigits)

\* a confirmPayment step that commits on the pending payment paymentId
ConfirmCommits(paymentId) ==
    /\ Handled("confirmPayment")
    /\ resp'.uid = paymentId
    /\ resp'.msg = "Payment confirmed and hint provided."
    /\ paymentId \in 1..Len(payments)
    /\ payments[paymentId].status = "pending"

StrictlyAscending(s) == \A k \in 1..(Len(s) - 1) : s[k] < s[k + 1]

\* C17: after a confirmPayment commits on a pending payment, the payment is
\* completed with hintProvided true; the userCode of the payment's player
\* and round has requestedDigitIndex among its revealedDigits, which are
\* strictly ascending (so without duplicates) and within 0..CODE_LENGTH-1;
\* its hintPurchases is one more than before; and the player's
\* revealedHintDigits equals the userCode's new revealedDigits.
C17_ConfirmPostcondition ==
    [][ \A paymentId \in 1..Len(payments) :
          ConfirmCommits(paymentId)
              => LET paymentData == payments[paymentId]
                 IN /\ payments'[paymentId].status = "completed"
                    /\ payments'[paymentId].hintProvided
                    /\ UserCodesOf(paymentData.userId, paymentData.roundId) # {}
                    /\ \A ci \in UserCodesOf(paymentData.userId, paymentData.roundId) :
                          /\ paymentData.requestedDigitIndex
                                 \in SeqToSet(userCodes'[ci].revealedDigits)
                          /\ StrictlyAscending(userCodes'[ci].revealedDigits)
                          /\ SeqToSet(userCodes'[ci].revealedDigits) \subseteq 0..(CODE_LENGTH - 1)
                          /\ userCodes'[ci].hintPurchases = userCodes[ci].hintPurchases + 1
                          /\ users'[paymentData.userId].revealedHintDigits
                                 = userCodes'[ci].revealedDigits
      ]_vars

\* a confirmed payment whose position was sorted in before one revealed earlier
C17_Witness ==
    /\ resp.op = "confirmPayment" /\ resp.msg = "Payment confirmed and hint provided."
    /\ resp.uid \in 1..Len(payments)
    /\ payments[resp.uid].hintProvided
    /\ \E ci \in UserCodesOf(payments[resp.uid].userId, payments[resp.uid].roundId) :
          /\ Len(userCodes[ci].revealedDigits) >= 2
          /\ userCodes[ci].revealedDigits[1] = payments[resp.uid].requestedDigitIndex
          /\ userCodes[ci].hintPurchases = Len(userCodes[ci].revealedDigits)

\* the player's profile or the player's code of the active round says "won"
HasWon(userId) ==
    /\ users[userId].exists
    /\ \/ users[userId].isWinnerInCurrentRound
       \/ \E r \in ActiveRounds : \E ci \in UserCodesOf(userId, r) : userCodes[ci].isWinner

\* C18: a submitGuess by a player whose isWinnerInCurrentRound is true, or
\* whose userCode of the active round has isWinner true, is rejected with
\* failed-precondition whatever the (seven-digit) guess, right or wrong, and
\* changes no stored record: no attempt counted, no winner recorded,
\* winnerCount as before.
C18_WinnerGuessRejected ==
    [][ \A userId \in Players : \A guessedCode \in Guesses :
          ( /\ Handled("submitGuess") /\ resp'.uid = userId
            /\ HasWon(userId)
            /\ IsWellFormedGuess(guessedCode)
            /\ SubmitGuess(userId, guessedCode) )
              => /\ resp'.status = "failed-precondition"
                 /\ store' = store
      ]_vars

\* a winner of the active round guessed again and was turned away
C18_Witness ==
    /\ resp.op = "submitGuess" /\ resp.status = "failed-precondition"
    /\ resp.msg = "You have already won in this round."
    /\ HasWon(resp.uid)
    /\ \E w \in 1..Len(winners) : winners[w].userId = resp.uid

\* the response of a call that went through
Succeeded(r) ==
    \/ r.status = "ok"
    \/ r.op = "confirmPayment" /\ r.msg = "Payment confirmed and hint provided."

\* C19: a call of startRound, assignCode, submitGuess, requestHint,
\* confirmPayment or finishRound that fails a check aborts without side
\* effects: the stored rounds, users, userCodes, winners and payments after
\* the failed call equal those before it (each call is one transaction, so
\* no other call sees a state in between).
C19_FailuresLeaveStore ==
    [][ (served' = served + 1 /\ ~Succeeded(resp')) => store' = store ]_vars

\* a known player asked for a hint in a round they hold no code for
C19_Witness ==
    /\ resp.op = "requestHint" /\ resp.status = "failed-precondition"
    /\ resp.msg = "User has no code assigned."
    /\ users[resp.uid].exists
    /\ userCodes # <<>>

\* the value the limiter counts from: the player's counter, or 0 when the
\* window since the last accepted guess has elapsed
CounterBase(userId) ==
    IF InWindow(users[userId]) THEN users[userId].attemptsInCurrentRound ELSE 0

\* both attempt counters of userId are one up after the step
Charged(userId) ==
    /\ users'[userId].attemptsInCurrentRound = CounterBase(userId) + 1
    /\ \E r \in ActiveRounds : \E ci \in UserCodesOf(userId, r) :
          userCodes'[ci].attempts = userCodes[ci].attempts + 1

C21_RoundEndedIffLastWinner ==
    [][ \A userId \in Players : \A r \in ActiveRounds :
          ( Handled("submitGuess") /\ resp'.uid = userId /\ resp'.status = "ok" )
              => /\ resp'.roundEnded
                        <=> (resp'.isCorrect /\ resp'.winnerNumber = rounds[r].maxWinners)
                 /\ resp'.roundEnded
                        => /\ ~rounds'[r].isActive
                           /\ rounds'[r].endTime # NoTime
                           /\ users'[userId].currentRoundId = NoRound
                           /\ ~users'[userId].isWinnerInCurrentRound
                           /\ users'[userId].hintCount = 0
                           /\ users'[userId].attemptsInCurrentRound = 0
                           /\ users'[userId].revealedHintDigits = <<>>
                 /\ (resp'.isCorrect /\ resp'.winnerNumber < rounds[r].maxWinners)
                        => /\ rounds'[r].isActive
                           /\ ~resp'.roundEnded
                           /\ users'[userId].isWinnerInCurrentRound
      ]_vars

\* the guess of rank MAX_WINNERS came in and closed its round
C21_Witness ==
    /\ resp.op = "submitGuess" /\ resp.isCorrect /\ resp.roundEnded
    /\ resp.winnerNumber = MAX_WINNERS
    /\ users[resp.uid].currentRoundId = NoRound
    /\ ActiveRounds = {}

\* C22: each committed startRound creates exactly one new round with
\* isActive true, winnerCount 0, maxWinners MAX_WINNERS and roundNumber one
\* above the highest existing roundNumber (1 when there is no round), and
\* marks the round that was active ended; after n startRound calls the round
\* numbers are exactly 1..n, none twice.
C22_StartRoundNumbersRounds ==
    [][ Handled("startRound")
          => /\ Len(rounds') = Len(rounds) + 1
             /\ LET created == rounds'[Len(rounds')]
                IN /\ created.isActive
                   /\ created.winnerCount = 0
                   /\ created.maxWinners = MAX_WINNERS
                   /\ created.endTime = NoTime
                   /\ created.roundNumber =
                         IF rounds = <<>> THEN 1
                         ELSE 1 + CHOOSE m \in {rounds[i].roundNumber : i \in 1..Len(rounds)} :
                                     \A i \in 1..Len(rounds) : rounds[i].roundNumber <= m
             /\ \A r \in 1..Len(rounds) :
                   /\ rounds[r].isActive
                         => ~rounds'[r].isActive /\ rounds'[r].endTime # NoTime
                   /\ rounds'[r].roundNumber = rounds[r].roundNumber
                   /\ rounds'[r].winnerCount = rounds[r].winnerCount
             /\ {rounds'[i].roundNumber : i \in 1..Len(rounds')} = 1..Len(rounds')
      ]_vars

\* the second startRound: rounds 1 and 2, the first ended with a winner in it
C22_Witness ==
    /\ resp.op = "startRound"
    /\ Len(rounds) = 2
    /\ rounds[1].roundNumber = 1 /\ rounds[2].roundNumber = 2
    /\ ~rounds[1].isActive /\ rounds[1].winnerCount = 1
    /\ rounds[2].isActive /\ rounds[2].winnerCount = 0

\* C23: ending an ended round is refused, never silently repeated:
\* finishRound on a round whose isActive is false fails with
\* failed-precondition, and no operation writes isActive or endTime of a
\* round that is already ended, so an end time, once stamped, never changes.
C23_EndTimeNeverRestamped ==
    [][ \A r \in 1..Len(rounds) :
          ~rounds[r].isActive
              => /\ ~rounds'[r].isActive
                 /\ rounds'[r].endTime = rounds[r].endTime
                 /\ (Handled("finishRound") /\ FinishRound(r))
                        => resp'.status = "failed-precondition"
      ]_vars

\* C24: when no round is active, assignCode, submitGuess (of a seven-digit
\* guess) and requestHint each fail with failed-precondition as the caller
\* sees it, and change no stored record.
C24_NoActiveRoundFailedPrecondition ==
    [][ ( /\ served' = served + 1
          /\ ActiveRounds = {}
          /\ resp'.op \in {"assignCode", "submitGuess", "requestHint"}
          /\ resp'.status # "invalid-argument" )
            => /\ resp'.status = "failed-precondition"
               /\ store' = store
      ]_vars

\* exactly CODE_LENGTH entries, each a digit 0..9
IsSevenDigits(g) == Len(g) = CODE_LENGTH /\ \A i \in 1..Len(g) : g[i] \in Digits

\* C25: a submitGuess whose guess is not exactly 7 entries each in 0..9 is
\* rejected with invalid-argument before any transaction starts: nothing is
\* written, no attempt is charged and lastGuessAttempt stays, whatever the
\* state of rounds and player.
C25_MalformedGuessRejected ==
    [][ \A userId \in Players : \A guessedCode \in Guesses :
          ( /\ Handled("submitGuess") /\ resp'.uid = userId
            /\ ~IsSevenDigits(guessedCode)
            /\ SubmitGuess(userId, guessedCode) )
              => /\ resp'.status = "invalid-argument"
                 /\ store' = store
      ]_vars

\* ---------------------------------------------------------------------------
\* What each handler answers, as a function of the userCodes collection it
\* reads: the same tests as the handlers, in the same order, kept free of the
\* writes.  `codes` stands for userCodes so that two stores differing in one
\* secretCode can be compared.

CodesOf(codes, userId, roundId) ==
    {i \in 1..Len(codes) : codes[i].userId = userId /\ codes[i].roundId = roundId}

\* faulty variant: the answer carries the first digit of the caller's code
AssignResponseEchoing(codes, userId) ==
    IF ActiveRounds = {}
    THEN Response("assignCode", userId, "internal", "No active round found.")
    ELSE LET activeRoundId == CHOOSE r \in ActiveRounds : TRUE
         IN IF CodesOf(codes, userId, activeRoundId) # {}
            THEN [Response("assignCode", userId, "ok", "already exists") EXCEPT
                     !.winnerNumber =
                         codes[CHOOSE i \in CodesOf(codes, userId, activeRoundId) : TRUE]
                             .secretCode[1]]
            ELSE Response("assignCode", userId, "ok", "assigned")

AssignResponse(codes, userId) ==
    IF ActiveRounds = {}
    THEN Response("assignCode", userId, "internal", "No active round found.")
    ELSE LET activeRoundId == CHOOSE r \in ActiveRounds : TRUE
         IN IF CodesOf(codes, userId, activeRoundId) # {}
            THEN Response("assignCode", userId, "ok", "already exists")
            ELSE Response("assignCode", userId, "ok", "assigned")

GuessResponse(codes, userId, guessedCode) ==
    IF ~IsWellFormedGuess(guessedCode)
    THEN Response("submitGuess", userId, "invalid-argument", "Invalid guessed code format.")
    ELSE IF ActiveRounds = {}
    THEN Response("submitGuess", userId, "failed-precondition", "No active round found.")
    ELSE LET activeRoundId == CHOOSE r \in ActiveRounds : TRUE
         IN IF ~users[userId].exists
            THEN Response("submitGuess", userId, "not-found", "User data not found.")
            ELSE IF CodesOf(codes, userId, activeRoundId) = {}
            THEN Response("submitGuess", userId, "failed-precondition",
                          "User has no code assigned.")
            ELSE LET userData == users[userId]
                     userCodeData ==
                         codes[CHOOSE i \in CodesOf(codes, userId, activeRoundId) : TRUE]
                     activeRoundData == rounds[activeRoundId]
                     isCorrectGuess == areCodesEqual(guessedCode, userCodeData.secretCode)
                     winnerNumber == WinnerNumberFor(activeRoundData)
                 IN IF AlreadyWon(userData, userCodeData)
                    THEN Response("submitGuess", userId, "failed-precondition",
                                  "You have already won in this round.")
                    ELSE IF RateLimited(userData)
                    THEN Response("submitGuess", userId, "resource-exhausted",
                                  "Too many guess attempts.")
                    ELSE IF isCorrectGuess
                            /\ activeRoundData.winnerCount >= QuotaOf(activeRoundData)
                    THEN Response("submitGuess", userId, "failed-precondition",
                                  "Round has already reached maximum winners.")
                    ELSE [Response("submitGuess", userId, "ok",
                                   IF isCorrectGuess THEN "correct" ELSE "incorrect")
                            EXCEPT !.isCorrect = isCorrectGuess,
                                   !.roundEnded =
                                       isCorrectGuess
                                       /\ IsLastWinner(winnerNumber, activeRoundData),
                                   !.winnerNumber =
                                       IF isCorrectGuess THEN winnerNumber ELSE NoRank]

HintResponse(codes, userId) ==
    IF ~users[userId].exists
    THEN Response("requestHint", userId, "not-found", "User data not found.")
    ELSE IF ActiveRounds = {}
    THEN Response("requestHint", userId, "failed-precondition", "No active round found.")
    ELSE LET activeRoundId == CHOOSE r \in ActiveRounds : TRUE
         IN IF CodesOf(codes, userId, activeRoundId) = {}
            THEN Response("requestHint", userId, "failed-precondition",
                          "User has no code assigned.")
            ELSE LET userData == users[userId]
                     userCodeData ==
                         codes[CHOOSE i \in CodesOf(codes, userId, activeRoundId) : TRUE]
                 IN IF userData.isWinnerInCurrentRound \/ userCodeData.isWinner
                    THEN Response("requestHint", userId, "failed-precondition",
                                  "You cannot request a hint after winning.")
                    ELSE IF userCodeData.hintPurchases >= MAX_HINTS_PER_ROUND
                    THEN Response("requestHint", userId, "resource-exhausted",
                                  "Maximum number of hints.")
                    ELSE IF InHintCooldown(userData)
                    THEN Response("requestHint", userId, "resource-exhausted",
                                  "Please wait a moment.")
                    ELSE IF Len(AvailableIndices(userCodeData.revealedDigits)) = 0
                    THEN Response("requestHint", userId, "failed-precondition",
                                  "All digits revealed.")
                    ELSE Response("requestHint", userId, "ok", "payment initiated")

ConfirmResponse(codes, paymentId) ==
    IF paymentId \notin 1..Len(payments)
    THEN Response("confirmPayment", paymentId, "200", "Payment record not found internally.")
    ELSE LET paymentData == payments[paymentId]
             userCodeSet == CodesOf(codes, paymentData.userId, paymentData.roundId)
         IN IF paymentData.status = "completed" /\ paymentData.hintProvided
            THEN Response("confirmPayment", paymentId, "200", "Payment already processed.")
            ELSE IF paymentData.status # "pending"
            THEN Response("confirmPayment", paymentId, "200",
                          "Payment is not in pending state.")
            ELSE IF userCodeSet = {}
            THEN Response("confirmPayment", paymentId, "500",
                          "Internal Error: User code not found.")
            ELSE IF \/ paymentData.requestedDigitIndex < 0
                    \/ paymentData.requestedDigitIndex
                           >= Len(codes[CHOOSE i \in userCodeSet : TRUE].secretCode)
            THEN Response("confirmPayment", paymentId, "500",
                          "Internal Error: Invalid requested digit index.")
            ELSE IF ~users[paymentData.userId].exists
            THEN Response("confirmPayment", paymentId, "500", "Internal Server Error")
            ELSE Response("confirmPayment", paymentId, "200",
                          "Payment confirmed and hint provided.")

\* a code generateSecretCode can return that lies outside the candidate pool
FreshCode == <<1, 2, 3, 4, 5, 6, 7>>

SecretAlternatives == {c \in CandidatePool \cup {FreshCode} : IsValidCode(c)}

\* the userCodes collection of a store that differs in the secret of document i
WithSecret(i, c) == [userCodes EXCEPT ![i].secretCode = c]

\* two answers that differ at most in isCorrect, roundEnded, winnerNumber, message
SameButOutcome(r1, r2) == r1.op = r2.op /\ r1.uid = r2.uid /\ r1.status = r2.status

\* C26: the secret never reaches a player.  Every answer has exactly the
\* fields op, uid, status, msg, isCorrect, roundEnded, winnerNumber, none of
\* which holds the digit sequence; the answer of assignCode, requestHint and
\* confirmPayment is the one the handler would give from any store that
\* differs only in one player's secretCode, and the answer of submitGuess
\* from such a store has the same status and differs at most in the
\* correctness outcome (isCorrect, roundEnded, winnerNumber, message).
C26_ResponsesIndependentOfSecret ==
    [][ served' = served + 1 =>
        /\ DOMAIN resp' = {"op", "uid", "status", "msg",
                           "isCorrect", "roundEnded", "winnerNumber"}
        /\ resp'.winnerNumber \in 0..MAX_WINNERS
        /\ resp'.isCorrect \in BOOLEAN /\ resp'.roundEnded \in BOOLEAN
        /\ resp'.op = "assignCode" =>
               /\ resp' = AssignResponse(userCodes, resp'.uid)
               /\ \A i \in 1..Len(userCodes) : \A c \in SecretAlternatives :
                      AssignResponse(WithSecret(i, c), resp'.uid) = resp'
        /\ resp'.op = "requestHint" =>
               /\ resp' = HintResponse(userCodes, resp'.uid)
               /\ \A i \in 1..Len(userCodes) : \A c \in SecretAlternatives :
                      HintResponse(WithSecret(i, c), resp'.uid) = resp'
        /\ resp'.op = "confirmPayment" =>
               /\ resp' = ConfirmResponse(userCodes, resp'.uid)
               /\ \A i \in 1..Len(userCodes) : \A c \in SecretAlternatives :
                      ConfirmResponse(WithSecret(i, c), resp'.uid) = resp'
        /\ resp'.op = "submitGuess" =>
               \A guessedCode \in Guesses :
                   SubmitGuessBody(resp'.uid, guessedCode) =>
                       /\ resp' = GuessResponse(userCodes, resp'.uid, guessedCode)
                       /\ \A i \in 1..Len(userCodes) : \A c \in SecretAlternatives :
                              SameButOutcome(
                                  GuessResponse(WithSecret(i, c), resp'.uid, guessedCode),
                                  resp')
      ]_vars

\* a correct guess has been answered while another player holds a code too
C26_Witness ==
    /\ resp.op = "submitGuess" /\ resp.status = "ok" /\ resp.isCorrect
    /\ Len(userCodes) >= 2

\* rule 1 of the generator, stated on the digits themselves
NotAllOneDigit(code) == \E i, j \in 1..Len(code) : code[i] # code[j]

\* rule 2 of the generator: no four neighbours are equal
NoRunOfFour(code) ==
    \A i \in 1..(Len(code) - 3) :
        ~(code[i] = code[i + 1] /\ code[i] = code[i + 2] /\ code[i] = code[i + 3])

AllSameGuesses == {g \in Guesses : Len(g) = 7 /\ Cardinality(SeqToSet(g)) = 1}

\* C27: every secretCode stored in a userCode has exactly 7 digits in 0..9,
\* is not all one digit and has no run of 4 or more equal neighbours; and a
\* submitGuess of an all-same guess is never answered with isCorrect = true.
C27_StoredCodesValid ==
    [][ /\ \A i \in 1..Len(userCodes') :
              /\ Len(userCodes'[i].secretCode) = 7
              /\ \A k \in 1..7 : userCodes'[i].secretCode[k] \in Digits
              /\ NotAllOneDigit(userCodes'[i].secretCode)
              /\ NoRunOfFour(userCodes'[i].secretCode)
        /\ \A userId \in Players : \A guessedCode \in AllSameGuesses :
              (/\ Handled("submitGuess") /\ resp'.uid = userId
               /\ SubmitGuessBody(userId, guessedCode)) =>
                  /\ ~resp'.isCorrect
                  /\ winners' = winners
      ]_vars

\* both generated codes are stored and a guess against one of them, which an
\* all-same guess can be, came back as incorrect
C27_Witness ==
    /\ resp.op = "submitGuess" /\ resp.status = "ok" /\ ~resp.isCorrect
    /\ {userCodes[i].secretCode : i \in 1..Len(userCodes)} = generateSecretCode
    /\ \E i \in 1..Len(userCodes) :
          userCodes[i].userId = resp.uid /\ userCodes[i].attempts > 0

(* ------------------- the browser's code generator ----------------------- *)
\* the safety break of generateValidCode's loop
maxAttempts == 1000

\* largest clock reading the fallback is tried with; every last digit occurs
MaxClientNow == 9

\* number.toString() of one digit
DigitString == <<"0", "1", "2", "3", "4", "5", "6", "7", "8", "9">>

toString(d) == DigitString[d + 1]

\* code.join('')
RECURSIVE join(_)
join(code) == IF Len(code) = 0 THEN "" ELSE Head(code) \o join(Tail(code))

\* Array.from({ length }, () => Math.floor(Math.random() * 10).toString()):
\* the digit draws one attempt can make
ClientDraws ==
    { <<0, 0, 0, 0, 0, 0, 0>>,
      <<7, 7, 7, 7, 1, 2, 3>>,
      <<0, 0, 0, 1, 1, 1, 2>>,
      <<0, 1, 2, 3, 4, 5, 6>> }

DrawnCode(digits) == [i \in 1..Len(digits) |-> toString(digits[i])]

\* savedState.assignedCodes: the code strings handed in as usedCodes
AssignedCodePool == {"0001112", "0123456", "3456789"}

isValidConsecutive(code) ==
    IF Len(code) < 4 THEN TRUE
    ELSE ~ \E i \in 1..(Len(code) - 3) :
             /\ code[i] = code[i + 1]
             /\ code[i] = code[i + 2]
             /\ code[i] = code[i + 3]

isNotAllSame(code) == ~ \A i \in 1..Len(code) : code[i] = code[1]

\* the test that lets an attempt return its code
AttemptAccepted(code, usedCodes) ==
    isNotAllSame(code) /\ isValidConsecutive(code) /\ join(code) \notin usedCodes

\* Array.from({ length }, (_, i) => ((i + Date.now()) % 10).toString())
\* faulty variant: the position is left out of the sum
FallbackCodeConstant(length, dateNow) ==
    [k \in 1..length |-> toString(dateNow % 10)]

FallbackCode(length, dateNow) ==
    [k \in 1..length |-> toString(((k - 1) + dateNow) % 10)]

\* handleVerifyOtp for an address without saved data: generateValidCode is
\* entered with the saved assignedCodes
HandleVerifyOtp(assignedCodes) ==
    /\ client.pc = "idle"
    /\ client' = [pc |-> "loop", usedCodes |-> assignedCodes, attempts |-> 0,
                  code |-> <<>>]
    /\ UNCHANGED <<store, now, resp, served>>

\* one pass of the while loop
GenerateAttempt(digits) ==
    /\ client.pc = "loop"
    /\ client.attempts < maxAttempts
    /\ LET code == DrawnCode(digits)
       IN IF AttemptAccepted(code, client.usedCodes)
          THEN client' = [client EXCEPT !.pc = "returned", !.code = code]
          ELSE client' = [client EXCEPT !.attempts = @ + 1]
    /\ UNCHANGED <<store, now, resp, served>>

\* the loop ran out: the clock-seeded code is returned as it is
GenerateFallback(dateNow) ==
    /\ client.pc = "loop"
    /\ client.attempts >= maxAttempts
    /\ client' = [client EXCEPT !.pc = "returned",
                                !.code = FallbackCode(CODE_LENGTH, dateNow)]
    /\ UNCHANGED <<store, now, resp, served>>

NextClient ==
    \/ \E assignedCodes \in SUBSET AssignedCodePool : HandleVerifyOtp(assignedCodes)
    \/ \E digits \in ClientDraws : GenerateAttempt(digits)
    \/ \E dateNow \in 0..MaxClientNow : GenerateFallback(dateNow)

SpecClient == Init /\ [][NextClient]_vars

\* C28: the code generateValidCode(7, usedCodes) returns is not all one digit
\* and has no four equal neighbours, also when the 1000 attempts are used up
\* and the clock-seeded fallback is returned, whatever the clock shows.
C28_ReturnedCodeValid ==
    client.pc = "returned" =>
        /\ Len(client.code) = CODE_LENGTH
        /\ \A i \in 1..Len(client.code) : client.code[i] \in SeqToSet(DigitString)
        /\ NotAllOneDigit(client.code)
        /\ NoRunOfFour(client.code)

\* the fallback was returned after 1000 rejected attempts
C28_Witness ==
    /\ client.pc = "returned"
    /\ client.attempts = maxAttempts
    /\ join(client.code) = "3456789"

\* C29: the code generateValidCode returns is unique compared to usedCodes:
\* its joined digit string is not a member of usedCodes, for every usedCodes
\* and every outcome of the draws, all 1000 attempts rejected included.
C29_ReturnedCodeUnused ==
    client.pc = "returned" => join(client.code) \notin client.usedCodes

(* ---------------- order of the transactional calls ---------------------- *)
\* The calls a handler issues on its transaction object, in program order,
\* on the path that ends with the answer r; "get" is a transactional read,
\* "set" and "update" are transactional writes.
StartRoundOps ==
    <<"get">> \o (IF LastRounds # {} THEN <<"update">> ELSE <<>>) \o <<"set">>

FinishRoundOps(r) ==
    IF r.status = "ok" THEN <<"get", "update">> ELSE <<"get">>

\* active round, caller's code, uniqueness query, the new userCode, then the
\* users document is read and created or reset
AssignOps(r) ==
    IF r.status # "ok" THEN <<"get">>
    ELSE IF r.msg = "already exists" THEN <<"get", "get">>
    ELSE <<"get", "get", "get", "set", "get">>
         \o (IF users[r.uid].exists THEN <<"update">> ELSE <<"set">>)

GuessOps(r) ==
    IF r.status = "invalid-argument" THEN <<>>
    ELSE IF r.msg = "No active round found." THEN <<"get">>
    ELSE IF r.msg = "User data not found." THEN <<"get", "get">>
    ELSE IF r.status # "ok" THEN <<"get", "get", "get">>
    ELSE <<"get", "get", "get">>
         \o (IF InWindow(users[r.uid]) THEN <<>> ELSE <<"update">>)
         \o <<"update", "update">>
         \o (IF r.isCorrect THEN <<"update", "update", "update", "set">> ELSE <<>>)
         \o (IF r.roundEnded THEN <<"update", "update">> ELSE <<>>)

HintOps(r) ==
    IF r.status = "not-found" THEN <<"get">>
    ELSE IF r.msg = "No active round found." THEN <<"get", "get">>
    ELSE IF r.status # "ok" THEN <<"get", "get", "get">>
    ELSE <<"get", "get", "get", "update", "set">>

\* the payment is read and marked completed before the userCodes query
ConfirmOps(r) ==
    IF r.msg \in {"Payment record not found internally.", "Payment already processed.",
                  "Payment is not in pending state."}
    THEN <<"get">>
    ELSE IF r.msg \in {"Internal Error: User code not found.",
                       "Internal Error: Invalid requested digit index."}
    THEN <<"get", "update", "get">>
    ELSE <<"get", "update", "get", "update", "update", "update">>

TransactionOps(r) ==
    CASE r.op = "startRound" -> StartRoundOps
      [] r.op = "finishRound" -> FinishRoundOps(r)
      [] r.op = "assignCode" -> AssignOps(r)
      [] r.op = "submitGuess" -> GuessOps(r)
      [] r.op = "requestHint" -> HintOps(r)
      [] r.op = "confirmPayment" -> ConfirmOps(r)
      [] OTHER -> <<>>

ReadsBeforeWrites(ops) ==
    \A i, j \in 1..Len(ops) : (ops[i] # "get" /\ i < j) => ops[j] # "get"

\* C30: in the transaction of every handler (startRound, assignCode,
\* submitGuess, requestHint, confirmPayment, finishRound) all reads come
\* before the first write: no path issues a transactional get after a
\* transactional set or update.
C30_ReadsBeforeWrites ==
    [][ served' = served + 1 => ReadsBeforeWrites(TransactionOps(resp')) ]_vars

(* ------------------- the webhook's answers to its caller ---------------- *)
\* the request body lacks paymentId or transactionId: answered before the
\* transaction is entered
ConfirmPaymentMissingIds ==
    /\ ServeUpTo(MaxHintRequests)
    /\ resp' = Response("confirmPayment", 0, "400",
                        "Bad Request: Missing paymentId or transactionId.")
    /\ UNCHANGED <<store, now>>

NextWebhook ==
    \/ StartRoundH
    \/ \E userId \in HintPlayers : AssignCodeH(userId)
    \/ \E userId \in HintPlayers : RequestHintH(userId)
    \/ \E paymentId \in 1..MaxHintPayments : ConfirmPaymentH(paymentId)
    \/ ConfirmPaymentMissingIds
    \/ TickH

SpecWebhook == Init /\ [][NextWebhook]_vars

\* the ways through confirmPayment, named by the answer the path ends with
ConfirmPaths ==
    { "Bad Request: Missing paymentId or transactionId.",
      "Payment record not found internally.",
      "Payment already processed.",
      "Payment is not in pending state.",
      "Internal Error: User code not found.",
      "Internal Error: Invalid requested digit index.",
      "Internal Server Error",
      "Payment confirmed and hint provided." }

\* the paths that return before the try block
ReturnsEarly(path) == path = "Bad Request: Missing paymentId or transactionId."

\* res.send calls made inside the transaction callback, each followed by a throw
SentInTransaction(path) ==
    IF path \in { "Payment record not found internally.",
                  "Payment already processed.",
                  "Payment is not in pending state.",
                  "Internal Error: User code not found.",
                  "Internal Error: Invalid requested digit index." }
    THEN << path >>
    ELSE << >>

\* runTransaction rejects: the callback threw, or the commit failed
TransactionThrows(path) == path # "Payment confirmed and hint provided."

\* res.headersSent when the code after the transaction or the catch block runs
\* faulty variant: the flag is never seen as set
HeadersSentNever(path) == FALSE

HeadersSent(path) == SentInTransaction(path) # << >>

\* every res.send of one invocation, in program order
ResponsesSent(path) ==
    IF ReturnsEarly(path) THEN << path >>
    ELSE SentInTransaction(path)
         \o (IF ~TransactionThrows(path) /\ ~HeadersSent(path)
             THEN << "Payment confirmed and hint provided." >> ELSE << >>)
         \o (IF TransactionThrows(path) /\ ~HeadersSent(path)
             THEN << "Internal Server Error" >> ELSE << >>)

\* C31: every invocation of confirmPayment sends exactly one terminal
\* response on every path (missing ids, record not found, already processed,
\* not pending, user code missing, invalid digit index, store failure,
\* success), never none and never two; and the answer an invocation ends
\* with is that one response.
C31_ExactlyOneResponse ==
    /\ \A path \in ConfirmPaths : Len(ResponsesSent(path)) = 1
    /\ resp.op = "confirmPayment" =>
          /\ resp.msg \in ConfirmPaths
          /\ ResponsesSent(resp.msg) = << resp.msg >>

\* a pending payment was confirmed, then delivered again and answered once more
C31_Witness ==
    /\ resp.op = "confirmPayment" /\ resp.msg = "Payment already processed."
    /\ \E p \in 1..Len(payments) : payments[p].status = "completed"

(* ------------------------- who may call ---------------------------------- *)
\* context.auth of a callable: absent, a signed-in player, an administrator
Contexts ==
    { [auth |-> FALSE, admin |-> FALSE],
      [auth |-> TRUE, admin |-> FALSE],
      [auth |-> TRUE, admin |-> TRUE] }

IsPrivileged(context) == context.auth /\ context.admin

\* startRound as invoked with a given context: the admin test of the source
\* is commented out, so the handler never reads the context
StartRoundCalledBy(context) == StartRound

\* finishRound reads data.roundId only
FinishRoundCalledBy(context, roundId) == FinishRound(roundId)

\* C32: startRound and finishRound change round state only for a privileged
\* caller: a call from an unauthenticated or non-privileged caller creates no
\* round and changes no round's isActive or endTime.
C32_OnlyPrivilegedChangeRounds ==
    [][ \A context \in Contexts :
          (/\ ~IsPrivileged(context)
           /\ \/ StartRoundCalledBy(context)
              \/ \E roundId \in 1..MaxRounds : FinishRoundCalledBy(context, roundId))
          => /\ Len(rounds') = Len(rounds)
             /\ \A r \in 1..Len(rounds) :
                   /\ rounds'[r].isActive = rounds[r].isActive
                   /\ rounds'[r].endTime = rounds[r].endTime ]_vars

\* C33: UserCode.isWinner is monotone: once it is true no operation (the
\* 10th-winner reset, a later startRound, assignCode, requestHint,
\* confirmPayment) sets it back to false, and no userCode disappears.
C33_IsWinnerMonotone ==
    [][ /\ Len(userCodes') >= Len(userCodes)
        /\ \A i \in 1..Len(userCodes) :
              userCodes[i].isWinner => userCodes'[i].isWinner ]_vars

\* a player won the round as its last winner, which reset the profile, and a
\* newer round has since given the same player another code
C33_Witness ==
    \E i, j \in 1..Len(userCodes) :
        /\ userCodes[i].userId \in Players /\ userCodes[i].isWinner
        /\ ~rounds[userCodes[i].roundId].isActive
        /\ userCodes[j].userId = userCodes[i].userId
        /\ userCodes[j].roundId # userCodes[i].roundId
        /\ ~userCodes[j].isWinner

\* the operation a step handled, "none" for a step that served no request
StepOp == IF served' = served + 1 THEN resp'.op ELSE "none"

\* C34: entity ownership as a frame condition.  Only assignCode creates
\* UserCode records and nothing changes a secretCode after creation; only
\* confirmPayment changes revealedDigits and hintPurchases; only submitGuess
\* changes isWinner and attempts and creates Winner records; requestHint and
\* confirmPayment leave every Round and Winner record unchanged; isActive,
\* endTime and winnerCount of a Round are changed only by startRound,
\* finishRound and submitGuess.
C34_EntityOwnership ==
    [][ /\ Len(userCodes') >= Len(userCodes)
        /\ Len(userCodes') # Len(userCodes) =>
              StepOp = "assignCode" /\ Len(userCodes') = Len(userCodes) + 1
        /\ \A i \in 1..Len(userCodes) :
              /\ userCodes'[i].secretCode = userCodes[i].secretCode
              /\ (\/ userCodes'[i].revealedDigits # userCodes[i].revealedDigits
                  \/ userCodes'[i].hintPurchases # userCodes[i].hintPurchases)
                 => StepOp = "confirmPayment"
              /\ (\/ userCodes'[i].isWinner # userCodes[i].isWinner
                  \/ userCodes'[i].attempts # userCodes[i].attempts)
                 => StepOp = "submitGuess"
        /\ winners' # winners =>
              /\ StepOp = "submitGuess"
              /\ Len(winners') = Len(winners) + 1
              /\ SubSeq(winners', 1, Len(winners)) = winners
        /\ StepOp \in {"requestHint", "confirmPayment"} =>
              rounds' = rounds /\ winners' = winners
        /\ (\/ Len(rounds') # Len(rounds)
            \/ \E r \in 1..Len(rounds) :
                  \/ rounds'[r].isActive # rounds[r].isActive
                  \/ rounds'[r].endTime # rounds[r].endTime
                  \/ rounds'[r].winnerCount # rounds[r].winnerCount)
           => StepOp \in {"startRound", "finishRound", "submitGuess"} ]_vars

\* a code was assigned, a hint paid for and revealed, and the code then guessed
C34_Witness ==
    /\ resp.op = "submitGuess" /\ resp.isCorrect
    /\ \E i \in 1..Len(userCodes) :
          /\ userCodes[i].userId = resp.uid
          /\ userCodes[i].isWinner
          /\ userCodes[i].hintPurchases >= 1
          /\ Len(userCodes[i].revealedDigits) >= 1
    /\ Len(winners) >= 1

\* C35: the guess limiter's window is anchored at the player's last accepted
\* guess.  A guess that reaches the limiter with no lastGuessAttempt, or 60
\* seconds or more after it, is accepted and counted as attempt 1; otherwise
\* it is accepted iff attemptsInCurrentRound < 10 and then counted on top; a
\* rejected guess changes neither the counter nor lastGuessAttempt; so a
\* player who has had 10 guesses accepted is accepted again only once 60
\* seconds have passed since the last accepted one.  (The clock starts at 0,
\* so while now < RATE_LIMIT_WINDOW_MS every accepted guess is less than 60
\* seconds old.)
C35_WindowAnchoredAtLastAccepted ==
    [][ \A userId \in Players :
          ReachesLimiter(userId) =>
            /\ ~InWindow(users[userId]) =>
                  /\ resp'.status = "ok"
                  /\ users'[userId].attemptsInCurrentRound = 1
                  /\ users'[userId].lastGuessAttempt = now
            /\ InWindow(users[userId]) =>
                  /\ resp'.status = "ok"
                       <=> users[userId].attemptsInCurrentRound < MAX_ATTEMPTS_PER_WINDOW
                  /\ resp'.status = "ok" =>
                        /\ users'[userId].attemptsInCurrentRound
                               = users[userId].attemptsInCurrentRound + 1
                        /\ users'[userId].lastGuessAttempt = now
            /\ resp'.status = "resource-exhausted" => users' = users
            /\ (AcceptedGuesses(userId) >= MAX_ATTEMPTS_PER_WINDOW
                   /\ now < RATE_LIMIT_WINDOW_MS)
               => resp'.status = "resource-exhausted"
      ]_vars

\* C36: for every UserCode, hintPurchases equals the number of positions in
\* revealedDigits, whatever the sequence of requestHint and confirmPayment
\* calls, two pending payments for the same unrevealed position included.
C36_PurchasesMatchRevealed ==
    \A i \in 1..Len(userCodes) :
        userCodes[i].hintPurchases = Len(userCodes[i].revealedDigits)

WinnerRecordsOf(userId, roundId) ==
    {w \in 1..Len(winners) : winners[w].userId = userId /\ winners[w].roundId = roundId}

\* C37: there is at most one Winner record per (player, round): a player
\* cannot win the same round twice, however that player's correct guesses
\* are interleaved (each guess is one serializable transaction).
C37_OneWinnerRecordPerPlayerAndRound ==
    \A userId \in AllUsers : \A roundId \in 1..Len(rounds) :
        Cardinality(WinnerRecordsOf(userId, roundId)) <= 1

\* a winner of the active round guessed again and was turned away
C37_Witness ==
    /\ resp.op = "submitGuess" /\ resp.status = "failed-precondition"
    /\ \E roundId \in ActiveRounds :
          /\ Cardinality(WinnerRecordsOf(resp.uid, roundId)) = 1
          /\ \E i \in UserCodesOf(resp.uid, roundId) : userCodes[i].attempts = 1

C39_NoRevealAfterWinOrEnd ==
    [][ \A i \in 1..Len(userCodes) :
          (userCodes[i].isWinner \/ ~rounds[userCodes[i].roundId].isActive)
          => /\ userCodes'[i].revealedDigits = userCodes[i].revealedDigits
             /\ userCodes'[i].hintPurchases = userCodes[i].hintPurchases ]_vars

\* C40: the profile's hint mirror agrees with the player's current round:
\* whenever currentRoundId names a round in which the player has a UserCode,
\* hintCount equals that UserCode's hintPurchases and revealedHintDigits
\* equals its revealedDigits, also when a payment requested in an earlier
\* round is confirmed after a code of a newer round was assigned.
C40_HintMirrorConsistent ==
    \A userId \in Players :
        users[userId].exists =>
            \A i \in 1..Len(userCodes) :
                (userCodes[i].userId = userId
                    /\ userCodes[i].roundId = users[userId].currentRoundId)
                => /\ users[userId].hintCount = userCodes[i].hintPurchases
                   /\ users[userId].revealedHintDigits = userCodes[i].revealedDigits

=============================================================================
